---------------------------- MODULE Spec2Model ----------------------------
(***************************************************************************)
(* Model of the proj4sedona benchmark harness (src/benchmark): the four    *)
(* runners of conftest.py (write source, build, run, cleanup), the test    *)
(* sweeps that call them, the accuracy parser and the accuracy comparator  *)
(* of tests/test_accuracy.py.                                              *)
(*                                                                         *)
(* Coordinates and deviations are fixed-point integers in units of 1e-7    *)
(* (so 1e-6 is 10, 5e-6 is 50, 1e-5 is 100); a mean is kept as the pair    *)
(* (total, count) and compared by cross-multiplication.                    *)
(***************************************************************************)
EXTENDS Integers, Sequences, FiniteSets, TLC

\* ------------------------------------------------------------------ bounds

\* Largest exit status a build or run subprocess is given in the model.
MaxExit == 2

\* Largest number of combinations (scenarios, or batch size x encoding pairs)
\* one sweep goes over.
MaxCombos == 3

\* Largest number of points in an accuracy record given to the comparator.
MaxPoints == 2

\* Largest number of test points in the scenario of a generated program.
MaxTestPoints == 2

VARIABLES
    \* one runner invocation (conftest.py)
    kind,        \* which runner is executing
    crs_format,  \* the crs_format argument
    pc,          \* position in run_benchmark / run_batch_benchmark
    fs,          \* files of this invocation that exist on disk
    created,     \* files this invocation has ever created
    hangs,       \* the subprocess being waited for never exits on its own
    build_rc,    \* exit status of the build subprocess, NoCode before it exits
    run_rc,      \* exit status of the run subprocess, NoCode before it exits
    result,      \* what the call returns or raises
    steps,       \* the steps of this invocation, in the order they happened
    \* one test function sweeping over combinations (tests/test_*.py)
    sweep,       \* which test function is executing
    combos,      \* how many combinations its loops go over
    idx,         \* the combination being evaluated, from 1
    phase,       \* position in the loop body
    recorded,    \* per combination: "none", "pass" or "fail"
    status,      \* "running", "completed", or "aborted" by a propagating exception
    \* one comparison of two accuracy records (tests/test_accuracy.py)
    java_accuracy,    \* the record parsed from the JVM program's output
    python_accuracy,  \* the record parsed from the reference program's output
    scenario,         \* the scenario the two records belong to
    verdict,          \* what the comparison computed, and whether it raised
    cmp_pc,           \* "ready", then which comparison has run
    \* one generated program run and the parse of its output
    impl,             \* "java" or "python": which generated program ran
    prog_format,      \* the crs_format the program was generated for
    crs_ok,           \* the library could build both projections
    test_points,      \* the scenario's point list
    transform_ok,     \* per scenario point: the library transformed it
    elapsed_zero,     \* the clock did not advance over the timed loop
    stdout,           \* the lines the program wrote to standard output
    exit_code,        \* the program's exit status, NoCode before it ran
    accuracy,         \* the record _parse_accuracy_output returns
    parse_pc,         \* "ready", "ran", "parsed"
    \* one throughput comparison (tests/test_performance.py)
    java_stdout,      \* the output of the JVM program given to the metrics parser
    python_stdout,    \* the output of the reference program given to the metrics parser
    java_metrics,     \* what _parse_benchmark_output made of java_stdout
    python_metrics,   \* what _parse_benchmark_output made of python_stdout
    summary,          \* the row of the summary table, and whether building it raised
    perf_pc,          \* "ready", "java_parsed", "parsed", "summarised", "raised"
    \* one scenario on its way from the fixtures to the two generated programs
    res_scenario,     \* the scenario dict; a missing key holds Absent
    res_format,       \* the encoding asked for
    mapped_scenario,  \* what map_scenario_to_crs_format returned
    crs_strings,      \* the <<from_crs, to_crs>> _get_crs_strings returned
    java_loaded,      \* the definitions the JVM program read, or its failure
    python_loaded,    \* the definitions the reference program read
    res_error,        \* the exception raised on the way, "none" if none
    res_pc,           \* "ready", "mapped", "resolved", "loaded", "raised"
    mapper,           \* which mapping helper was applied: "none", "conftest", "test_accuracy"
    \* one call of TemplateLoader.fill_template (template_loader.py)
    template_content, \* the template text, a sequence of characters
    bindings,         \* the keyword arguments, in the order they are iterated
    rendered,         \* the text fill_template returned
    tpl_pc,           \* "ready", "filled"
    \* one format-consistency comparison (tests/test_accuracy.py)
    fmt_results,      \* per encoding: the two records _get_accuracy_result returned
    consistency,      \* the six comparison rows, and whether the test failed
    cons_pc,          \* "ready", "checked"
    \* the point list of one batch benchmark (conftest.py)
    base_points,      \* scenario['test_points']
    batch_size,       \* the batch_size argument
    java_batch,       \* testPoints of the generated JVM program
    python_batch,     \* test_points of the generated reference program
    batch_pc,         \* "ready", "generated"
    \* the two iteration-count fixtures (conftest.py)
    benchmark_iterations,  \* what the benchmark_iterations fixture returned
    warmup,                \* what the warmup_iterations fixture returned
    warm_pc,               \* "ready", "derived"
    \* runner invocations of several workers in one working directory
    wkind,            \* per worker: the runner it is executing, "none" if idle
    wpc,              \* per worker: position in its runner
    wfile,            \* per worker: the source path it created
    disk,             \* the source and class files that exist
    dirs,             \* the temporary directories that exist
    wlost,            \* per worker: its compiled class was gone when it ran
    \* one run of the driver (run_benchmarks.py)
    markers,          \* args.markers
    results,          \* the results main collected, in order
    drv_pc,           \* position in main
    exit_status       \* what main returned, NoCode before it returns

runnerVars == <<kind, crs_format, pc, fs, created, hangs, build_rc, run_rc, result, steps>>

sweepVars == <<sweep, combos, idx, phase, recorded, status>>

cmpVars == <<java_accuracy, python_accuracy, scenario, verdict, cmp_pc>>

parseVars == <<impl, prog_format, crs_ok, test_points, transform_ok, elapsed_zero, stdout,
               exit_code,
               accuracy, parse_pc>>

perfVars == <<java_stdout, python_stdout, java_metrics, python_metrics, summary, perf_pc>>

\* The harness's helpers, which the runners, sweeps, comparisons and parses
\* above leave alone.
resolveVars == <<res_scenario, res_format, mapped_scenario, crs_strings, java_loaded,
                 python_loaded, res_error, res_pc, mapper>>

templateVars == <<template_content, bindings, rendered, tpl_pc>>

consVars == <<fmt_results, consistency, cons_pc>>

batchVars == <<base_points, batch_size, java_batch, python_batch, batch_pc>>

warmVars == <<benchmark_iterations, warmup, warm_pc>>

workerVars == <<wkind, wpc, wfile, disk, dirs, wlost>>

driverVars == <<markers, results, drv_pc, exit_status>>

extraVars == <<consVars, batchVars, warmVars, workerVars, driverVars>>

toolVars == <<perfVars, resolveVars, templateVars, extraVars>>

vars == <<kind, crs_format, pc, fs, created, hangs, build_rc, run_rc, result, steps,
          sweep, combos, idx, phase, recorded, status,
          java_accuracy, python_accuracy, scenario, verdict, cmp_pc,
          impl, prog_format, crs_ok, test_points, transform_ok, elapsed_zero, stdout,
          exit_code,
          accuracy, parse_pc,
          java_stdout, python_stdout, java_metrics, python_metrics, summary, perf_pc,
          res_scenario, res_format, mapped_scenario, crs_strings, java_loaded,
          python_loaded, res_error, res_pc, mapper,
          template_content, bindings, rendered, tpl_pc,
          fmt_results, consistency, cons_pc,
          base_points, batch_size, java_batch, python_batch, batch_pc,
          benchmark_iterations, warmup, warm_pc,
          wkind, wpc, wfile, disk, dirs, wlost,
          markers, results, drv_pc, exit_status>>

\* Everything the specifications written before the five groups above range
\* over.
coreVars == <<runnerVars, sweepVars, cmpVars, parseVars, perfVars, resolveVars,
              templateVars>>

\* Everything but the runner invocation, which the runner's steps leave alone.
callerVars == <<sweepVars, cmpVars, parseVars, toolVars>>

\* ----------------------------------------------------------- the resolver

\* The value of a key that a scenario dict does not have.
Absent == "<absent>"

NoScenarioDict ==
    [epsg_from |-> Absent, epsg_to |-> Absent, from_crs |-> Absent, to_crs |-> Absent,
     wkt2_from |-> Absent, wkt2_to |-> Absent, projjson_from |-> Absent,
     projjson_to |-> Absent]

\* scenario.get(key, default)
Get(d, key, default) == IF d[key] = Absent THEN default ELSE d[key]

\* The EPSG identifiers of the fixtures' scenarios, and one that no table has.
EpsgCodes == {"EPSG:4326", "EPSG:3857", "EPSG:32619", "EPSG:32145", "EPSG:4269", "EPSG:2154"}

\* The names under which the wkt2 and projjson fixtures hold a definition.
DefinitionKeys == {"WGS84", "WebMercator", "UTM_19N", "NAD83_Vermont", "NAD83"}

\* epsg_mapping of conftest.map_scenario_to_crs_format.
epsg_mapping ==
    [c \in {"EPSG:4326", "EPSG:3857", "EPSG:32619", "EPSG:32145", "EPSG:4269"} |->
        CASE c = "EPSG:4326" -> "WGS84"
          [] c = "EPSG:3857" -> "WebMercator"
          [] c = "EPSG:32619" -> "UTM_19N"
          [] c = "EPSG:32145" -> "NAD83_Vermont"
          [] c = "EPSG:4269" -> "NAD83"]

\* mapping.get(key, default)
MappingGet(mapping, key, default) ==
    IF key \in DOMAIN mapping THEN mapping[key] ELSE default

DefaultFromKey == "WGS84"

\* A target default that is the source default.
DefaultToKey_SameAsFrom == "WGS84"

DefaultToKey == "WebMercator"

\* The body shared by the two mapping helpers, which differ in their table:
\* scenario['epsg_from'] raises KeyError when the scenario has no such key.
MapWith(mapping, sc, fmt) ==
    IF fmt \in {"wkt2", "projjson"}
    THEN IF sc.epsg_from = Absent \/ sc.epsg_to = Absent
         THEN [raised |-> "KeyError", value |-> sc]
         ELSE [raised |-> "none",
               value |->
                 IF fmt = "wkt2"
                 THEN [sc EXCEPT
                         !.wkt2_from = MappingGet(mapping, sc.epsg_from, DefaultFromKey),
                         !.wkt2_to = MappingGet(mapping, sc.epsg_to, DefaultToKey)]
                 ELSE [sc EXCEPT
                         !.projjson_from = MappingGet(mapping, sc.epsg_from, DefaultFromKey),
                         !.projjson_to = MappingGet(mapping, sc.epsg_to, DefaultToKey)]]
    ELSE [raised |-> "none", value |-> sc]

map_scenario_to_crs_format(sc, fmt) == MapWith(epsg_mapping, sc, fmt)

\* A CRS as _get_crs_strings hands it to a runner: an EPSG string, the name
\* of a WKT2 definition, or a PROJJSON document.
EpsgString(code) == [kind |-> "epsg", name |-> code]

Wkt2Key(key) == [kind |-> "wkt2", name |-> key]

\* projjson_defs.get(key, {})
ProjjsonOf(key) ==
    [kind |-> "projjson", name |-> IF key \in DefinitionKeys THEN key ELSE "{}"]

\* A resolver that takes any unrecognized format for epsg.
_get_crs_strings_AnyFormat(sc, fmt) ==
    [raised |-> "none",
     value |-> << EpsgString(Get(sc, "epsg_from", Get(sc, "from_crs", ""))),
                  EpsgString(Get(sc, "epsg_to", Get(sc, "to_crs", ""))) >>]

_get_crs_strings(sc, fmt) ==
    IF fmt = "epsg"
    THEN [raised |-> "none",
          value |-> << EpsgString(Get(sc, "epsg_from", Get(sc, "from_crs", ""))),
                       EpsgString(Get(sc, "epsg_to", Get(sc, "to_crs", ""))) >>]
    ELSE IF fmt = "wkt2"
    THEN [raised |-> "none",
          value |-> << Wkt2Key(Get(sc, "wkt2_from", "WGS84")),
                       Wkt2Key(Get(sc, "wkt2_to", "WebMercator")) >>]
    ELSE IF fmt = "projjson"
    THEN [raised |-> "none",
          value |-> << ProjjsonOf(Get(sc, "projjson_from", "WGS84")),
                       ProjjsonOf(Get(sc, "projjson_to", "WebMercator")) >>]
    ELSE [raised |-> "ValueError", value |-> <<EpsgString(""), EpsgString("")>>]

\* Scenarios written with epsg_from / epsg_to, as the fixtures write them.
FixtureScenarioDicts ==
    {[NoScenarioDict EXCEPT !.epsg_from = a, !.epsg_to = b] : a, b \in EpsgCodes}

\* Scenarios written with the legacy keys from_crs / to_crs.
LegacyScenarioDicts ==
    {[NoScenarioDict EXCEPT !.from_crs = a, !.to_crs = b] : a, b \in EpsgCodes}

\* ------------------------------------------------------------ the runners

RunnerKinds == {"java", "batch_java", "python", "batch_python"}

\* crs_format values a caller may pass; "other" stands for any unrecognized one.
CrsFormats == {"epsg", "wkt2", "projjson", "other"}

SupportedFormats == {"epsg", "wkt2", "projjson"}

NoCode == -1

ExitCodes == 0..MaxExit

\* The Java runners compile with javac before running; the Python ones do not.
NeedsBuild(k) == k \in {"java", "batch_java"}

NoResult ==
    [outcome |-> "none", returncode |-> NoCode, output |-> "", error |-> "", exc |-> ""]

Returned(rc, out, err) ==
    [outcome |-> "returned", returncode |-> rc, output |-> out, error |-> err, exc |-> ""]

Raised(e, msg) ==
    [outcome |-> "raised", returncode |-> NoCode, output |-> "", error |-> msg, exc |-> e]

\* What a non-zero javac exit turns into: JavaRunner raises, BatchJavaRunner
\* returns a synthetic result carrying the compiler's stderr.
BuildFailure(k, rc) ==
    IF k = "java"
    THEN Raised("RuntimeError", "Java compilation failed: <build stderr>")
    ELSE Returned(rc, "", "Compilation failed: <build stderr>")

\* A runner that goes on to run whatever javac's exit status was.
AfterBuild_AlwaysRun(k, rc) == "run"

\* Where the runner goes once javac has exited with status rc.
AfterBuild(k, rc) == IF rc # 0 THEN "finally" ELSE "run"

\* What the exit of the run subprocess turns into.
RunResult(k, rc) ==
    IF k = "java" /\ rc # 0
    THEN Raised("RuntimeError", "Java execution failed: <run stderr>")
    ELSE Returned(rc, "<run stdout>", "<run stderr>")

\* os.unlink of each path in turn inside one try block: the first missing
\* path raises OSError, which is swallowed and skips the rest of the block.
RECURSIVE UnlinkInOrder(_, _)
UnlinkInOrder(paths, files) ==
    IF paths = <<>> THEN files
    ELSE IF Head(paths) \notin files THEN files
    ELSE UnlinkInOrder(Tail(paths), files \ {Head(paths)})

\* A finally block that unlinks the class file before the source file.
CleanupFiles_ClassFirst(k, files) ==
    CASE NeedsBuild(k) -> UnlinkInOrder(<<"class", "source">>, files)
      [] OTHER -> UnlinkInOrder(<<"source">>, files)

\* The finally block of each runner, as the files left on disk.
CleanupFiles(k, files) ==
    CASE k = "java" -> UnlinkInOrder(<<"source", "class">>, files)
      [] k = "batch_java" ->
            IF "source" \notin files THEN files
            ELSE (files \ {"source"}) \ {"class"}
      [] OTHER -> UnlinkInOrder(<<"source">>, files)

\* _get_crs_strings raises ValueError for an unrecognized format, before
\* anything is written; otherwise the runner goes on to write its source.
Invoke(k, f) ==
    /\ pc = "idle"
    /\ kind' = k
    /\ crs_format' = f
    /\ fs' = {}
    /\ created' = {}
    /\ hangs' = FALSE
    /\ build_rc' = NoCode
    /\ run_rc' = NoCode
    /\ steps' = <<>>
    /\ \E sc \in FixtureScenarioDicts :
          IF _get_crs_strings(sc, f).raised = "none"
          THEN pc' = "write" /\ result' = NoResult
          ELSE pc' = "done" /\ result' = Raised("ValueError", "Unsupported CRS format")

WriteSource ==
    /\ pc = "write"
    /\ fs' = fs \cup {"source"}
    /\ created' = created \cup {"source"}
    /\ steps' = Append(steps, "write")
    /\ pc' = IF NeedsBuild(kind) THEN "build" ELSE "run"
    /\ UNCHANGED <<kind, crs_format, hangs, build_rc, run_rc, result>>
    /\ UNCHANGED callerVars

\* subprocess.run(javac ...) is entered; no timeout is passed.
StartBuild ==
    /\ pc = "build"
    /\ pc' = "building"
    /\ hangs' \in BOOLEAN
    /\ steps' = Append(steps, "build_start")
    /\ UNCHANGED <<kind, crs_format, fs, created, build_rc, run_rc, result>>
    /\ UNCHANGED callerVars

\* javac exits: status 0 leaves the class file; a failed compile may or may
\* not leave one behind.
BuildExits ==
    /\ pc = "building"
    /\ ~hangs
    /\ \E rc \in ExitCodes, leftover \in BOOLEAN :
          /\ rc = 0 => leftover
          /\ build_rc' = rc
          /\ fs' = IF leftover THEN fs \cup {"class"} ELSE fs
          /\ created' = IF leftover THEN created \cup {"class"} ELSE created
          /\ pc' = AfterBuild(kind, rc)
          /\ result' = IF AfterBuild(kind, rc) = "finally"
                       THEN BuildFailure(kind, rc) ELSE result
    /\ steps' = Append(steps, "build_end")
    /\ UNCHANGED <<kind, crs_format, hangs, run_rc>>
    /\ UNCHANGED callerVars

\* subprocess.run itself raises (javac cannot be started).
BuildRaises ==
    /\ pc = "building"
    /\ ~hangs
    /\ pc' = "finally"
    /\ result' = Raised("OSError", "<cannot start javac>")
    /\ steps' = Append(steps, "build_end")
    /\ UNCHANGED <<kind, crs_format, fs, created, hangs, build_rc, run_rc>>
    /\ UNCHANGED callerVars

StartRun ==
    /\ pc = "run"
    /\ pc' = "running"
    /\ hangs' \in BOOLEAN
    /\ steps' = Append(steps, "run_start")
    /\ UNCHANGED <<kind, crs_format, fs, created, build_rc, run_rc, result>>
    /\ UNCHANGED callerVars

RunExits ==
    /\ pc = "running"
    /\ ~hangs
    /\ \E rc \in ExitCodes :
          /\ run_rc' = rc
          /\ result' = RunResult(kind, rc)
    /\ pc' = "finally"
    /\ steps' = Append(steps, "run_end")
    /\ UNCHANGED <<kind, crs_format, fs, created, hangs, build_rc>>
    /\ UNCHANGED callerVars

RunRaises ==
    /\ pc = "running"
    /\ ~hangs
    /\ pc' = "finally"
    /\ result' = Raised("OSError", "<cannot start program>")
    /\ steps' = Append(steps, "run_end")
    /\ UNCHANGED <<kind, crs_format, fs, created, hangs, build_rc, run_rc>>
    /\ UNCHANGED callerVars

\* The finally block runs and the call returns or re-raises.
Cleanup ==
    /\ pc = "finally"
    /\ fs' = CleanupFiles(kind, fs)
    /\ pc' = "done"
    /\ steps' = Append(steps, "cleanup")
    /\ UNCHANGED <<kind, crs_format, created, hangs, build_rc, run_rc, result>>
    /\ UNCHANGED callerVars

RunnerStep ==
    \/ WriteSource
    \/ StartBuild
    \/ BuildExits
    \/ BuildRaises
    \/ StartRun
    \/ RunExits
    \/ RunRaises
    \/ Cleanup

RunnerIdle ==
    /\ kind = "none"
    /\ crs_format = "none"
    /\ pc = "idle"
    /\ fs = {}
    /\ created = {}
    /\ hangs = FALSE
    /\ build_rc = NoCode
    /\ run_rc = NoCode
    /\ result = NoResult
    /\ steps = <<>>

SweepIdle ==
    /\ sweep = "none"
    /\ combos = 0
    /\ idx = 0
    /\ phase = "none"
    /\ recorded = <<>>
    /\ status = "none"

\* An accuracy record with nothing parsed into it.
EmptyRecord == [points |-> <<>>, errors |-> <<>>]

NoScenario == [name |-> "none", epsg_to |-> "none"]

NoVerdict ==
    [raised |-> FALSE, reason |-> "none", comparisons |-> 0, point_results |-> <<>>,
     max_diff |-> 0, total_diff |-> 0, tolerance |-> 0, avg_tolerance |-> 0,
     test_passed |-> FALSE]

CompareIdle ==
    /\ java_accuracy = EmptyRecord
    /\ python_accuracy = EmptyRecord
    /\ scenario = NoScenario
    /\ verdict = NoVerdict
    /\ cmp_pc = "none"

ParseIdle ==
    /\ impl = "none"
    /\ prog_format = "none"
    /\ crs_ok = FALSE
    /\ test_points = <<>>
    /\ transform_ok = <<>>
    /\ elapsed_zero = FALSE
    /\ stdout = <<>>
    /\ exit_code = NoCode
    /\ accuracy = EmptyRecord
    /\ parse_pc = "none"

\* A direct call of a runner, as the setup tests make it.
DirectCall ==
    /\ \E k \in RunnerKinds, f \in CrsFormats : Invoke(k, f)
    /\ UNCHANGED callerVars

\* No metrics have been parsed.
NoMetrics == [raised |-> FALSE, fields |-> {}, avg_time_ms |-> 0, tps |-> 0,
              success_rate |-> 0, total_time_ms |-> 0]

NoSummary == [raised |-> FALSE, table |-> "none", java_tps |-> 0, python_tps |-> 0,
              speedup |-> <<0, 1>>, status |-> "none"]

PerfIdle ==
    /\ java_stdout = <<>>
    /\ python_stdout = <<>>
    /\ java_metrics = NoMetrics
    /\ python_metrics = NoMetrics
    /\ summary = NoSummary
    /\ perf_pc = "idle"

\* What a generated program has read before it reads anything.
NothingLoaded == [failed |-> FALSE, defs |-> <<"", "">>]

ResolveIdle ==
    /\ res_scenario = NoScenarioDict
    /\ res_format = "none"
    /\ mapped_scenario = NoScenarioDict
    /\ crs_strings = <<EpsgString(""), EpsgString("")>>
    /\ java_loaded = NothingLoaded
    /\ python_loaded = NothingLoaded
    /\ res_error = "none"
    /\ res_pc = "idle"
    /\ mapper = "none"

TemplateIdle ==
    /\ template_content = <<>>
    /\ bindings = <<>>
    /\ rendered = <<>>
    /\ tpl_pc = "idle"

Workers == {"w1", "w2"}

NoFile == [dir |-> "none", stem |-> "none"]

ConsistencyIdle ==
    /\ fmt_results = <<>>
    /\ consistency = [comparisons |-> <<>>, failed |-> FALSE]
    /\ cons_pc = "idle"

BatchIdle ==
    /\ base_points = <<>>
    /\ batch_size = 0
    /\ java_batch = <<>>
    /\ python_batch = <<>>
    /\ batch_pc = "idle"

WarmupIdle ==
    /\ benchmark_iterations = 0
    /\ warmup = 0
    /\ warm_pc = "idle"

WorkersIdle ==
    /\ wkind = [w \in Workers |-> "none"]
    /\ wpc = [w \in Workers |-> "off"]
    /\ wfile = [w \in Workers |-> NoFile]
    /\ disk = {}
    /\ dirs = {}
    /\ wlost = [w \in Workers |-> FALSE]

DriverIdle ==
    /\ markers = {}
    /\ results = <<>>
    /\ drv_pc = "idle"
    /\ exit_status = NoCode

ExtraIdle == ConsistencyIdle /\ BatchIdle /\ WarmupIdle /\ WorkersIdle /\ DriverIdle

ToolsIdle == PerfIdle /\ ResolveIdle /\ TemplateIdle /\ ExtraIdle

RunnerInit == RunnerIdle /\ SweepIdle /\ CompareIdle /\ ParseIdle /\ ToolsIdle

RunnerNext ==
    \/ DirectCall
    \/ RunnerStep

RunnerSpec == RunnerInit /\ [][RunnerNext]_vars

\* Every step the runner's code can take is eventually taken; a subprocess
\* that never exits enables none.
FairRunnerSpec == RunnerSpec /\ WF_vars(RunnerNext)

\* ------------------------------------------------- claims about the runners

StepRank(s) ==
    CASE s = "write" -> 1
      [] s = "build_start" -> 2
      [] s = "build_end" -> 3
      [] s = "run_start" -> 4
      [] s = "run_end" -> 5
      [] s = "cleanup" -> 6

Happened(s) == \E i \in 1..Len(steps) : steps[i] = s

\* C1: when a runner call has returned or raised, no file that the call
\* created (its generated source, its compiled class) exists any more.
C1_ArtifactsGoneOnExit == pc = "done" => created \cap fs = {}

\* A Java runner raised after a failed run, having created source and class.
C1_Witness ==
    /\ pc = "done"
    /\ kind = "java"
    /\ created = {"source", "class"}
    /\ result.outcome = "raised"
    /\ run_rc > 0
    /\ fs = {}

\* C7: a non-zero build exit never starts the run step, and the runner
\* returns (does not raise) a result whose exit code is the build's and
\* whose error text carries the build's stderr.
C7_BuildFailureReturnsBuildResult ==
    (pc = "done" /\ build_rc > 0) =>
        /\ ~Happened("run_start")
        /\ result.outcome = "returned"
        /\ result.returncode = build_rc
        /\ result.error = "Compilation failed: <build stderr>"

\* C8: every runner invocation that was started eventually returns or raises.
C8_EveryInvocationReturns == (pc # "idle") ~> (pc = "done")

\* C9: the steps of an invocation happen in the order write, build, run,
\* cleanup, each at most once; run starts only after a build that exited 0;
\* cleanup starts only after every started build or run step has finished.
C9_StepOrder ==
    /\ \A i, j \in 1..Len(steps) : i < j => StepRank(steps[i]) < StepRank(steps[j])
    /\ steps # <<>> => steps[1] = "write"
    /\ (Happened("run_start") /\ NeedsBuild(kind)) =>
            (Happened("build_end") /\ build_rc = 0)
    /\ Happened("cleanup") =>
            /\ Happened("build_start") => Happened("build_end")
            /\ Happened("run_start") => Happened("run_end")
    /\ Happened("build_end") => Happened("build_start")
    /\ Happened("run_end") => Happened("run_start")

\* A Java runner built, ran and cleaned up; another one cleaned up after a
\* failed build without running.
C9_Witness ==
    /\ pc = "done"
    /\ kind = "batch_java"
    /\ build_rc > 0
    /\ steps = <<"write", "build_start", "build_end", "cleanup">>


\* ------------------------------------------------------------- the sweeps

\* The test functions that loop over combinations: the per-scenario loops of
\* the accuracy and performance tests, and the batch size x encoding loop of
\* the batch performance test.
SweepKinds == {"accuracy", "performance", "batch"}

JavaRunnerOf(t) == IF t = "batch" THEN "batch_java" ELSE "java"

PythonRunnerOf(t) == IF t = "batch" THEN "batch_python" ELSE "python"

\* The encoding of combination i: the batch test goes through the three
\* encodings for each batch size, the EPSG tests use "epsg" throughout.
FormatOf(t, i) ==
    IF t = "batch" THEN <<"epsg", "wkt2", "projjson">>[((i - 1) % 3) + 1] ELSE "epsg"

\* The runner call raised, or `assert result["returncode"] == 0` fails.
CallFailed(r) == r.outcome = "raised" \/ r.returncode # 0

RunnerReturnsToIdle ==
    /\ kind' = "none"
    /\ crs_format' = "none"
    /\ pc' = "idle"
    /\ fs' = {}
    /\ created' = {}
    /\ hangs' = FALSE
    /\ build_rc' = NoCode
    /\ run_rc' = NoCode
    /\ result' = NoResult
    /\ steps' = <<>>

\* The loop body ends for combination idx with verdict v and the loop goes on.
Finish(v) ==
    /\ recorded' = [recorded EXCEPT ![idx] = v]
    /\ IF idx = combos
       THEN status' = "completed" /\ idx' = idx /\ phase' = "end"
       ELSE status' = status /\ idx' = idx + 1 /\ phase' = "java"
    /\ UNCHANGED <<sweep, combos>>

\* An exception (a runner's, or a failed assert) leaves the loop and the test
\* function; the combination it came from counts as recorded, as a failure.
Abort ==
    /\ recorded' = [recorded EXCEPT ![idx] = "fail"]
    /\ status' = "aborted"
    /\ phase' = "end"
    /\ UNCHANGED <<sweep, combos, idx>>

CallJava ==
    /\ status = "running"
    /\ phase = "java"
    /\ Invoke(JavaRunnerOf(sweep), FormatOf(sweep, idx))
    /\ phase' = "java_wait"
    /\ UNCHANGED <<sweep, combos, idx, recorded, status, cmpVars, parseVars, toolVars>>

AfterJava ==
    /\ phase = "java_wait"
    /\ pc = "done"
    /\ RunnerReturnsToIdle
    /\ UNCHANGED <<cmpVars, parseVars, toolVars>>
    /\ IF CallFailed(result)
       THEN Abort
       ELSE phase' = "python" /\ UNCHANGED <<sweep, combos, idx, recorded, status>>

CallPython ==
    /\ status = "running"
    /\ phase = "python"
    /\ Invoke(PythonRunnerOf(sweep), FormatOf(sweep, idx))
    /\ phase' = "python_wait"
    /\ UNCHANGED <<sweep, combos, idx, recorded, status, cmpVars, parseVars, toolVars>>

AfterPython ==
    /\ phase = "python_wait"
    /\ pc = "done"
    /\ RunnerReturnsToIdle
    /\ UNCHANGED <<cmpVars, parseVars, toolVars>>
    /\ IF CallFailed(result)
       THEN Abort
       ELSE /\ phase' = IF sweep = "accuracy" THEN "compare" ELSE "record"
            /\ UNCHANGED <<sweep, combos, idx, recorded, status>>

\* _compare_accuracy prints its summary and then asserts the tolerances: a
\* deviation over the tolerance raises AssertionError out of the loop.
CompareStep ==
    /\ phase = "compare"
    /\ \E ok \in BOOLEAN : IF ok THEN Finish("pass") ELSE Abort
    /\ UNCHANGED <<runnerVars, cmpVars, parseVars, toolVars>>

\* The performance tests keep the parsed metrics of the combination; the
\* summary table marks a combination without throughput as failed.
RecordMetrics ==
    /\ phase = "record"
    /\ \E ok \in BOOLEAN : Finish(IF ok THEN "pass" ELSE "fail")
    /\ UNCHANGED <<runnerVars, cmpVars, parseVars, toolVars>>

SweepInit ==
    /\ RunnerIdle
    /\ CompareIdle
    /\ ParseIdle
    /\ ToolsIdle
    /\ sweep \in SweepKinds
    /\ combos \in 1..MaxCombos
    /\ idx = 1
    /\ phase = "java"
    /\ recorded = [i \in 1..combos |-> "none"]
    /\ status = "running"

SweepNext ==
    \/ CallJava
    \/ AfterJava
    \/ CallPython
    \/ AfterPython
    \/ CompareStep
    \/ RecordMetrics
    \/ RunnerStep

SweepSpec == SweepInit /\ [][SweepNext]_vars

\* C2: when a sweep has ended, every one of its combinations has a recorded
\* outcome, pass or fail.
C2_EveryCombinationRecorded ==
    status \in {"completed", "aborted"} =>
        \A i \in 1..combos : recorded[i] \in {"pass", "fail"}


\* --------------------------------------------------------- the comparator

Abs(v) == IF v < 0 THEN -v ELSE v

Max2(a, b) == IF a >= b THEN a ELSE b

Min2(a, b) == IF a <= b THEN a ELSE b

\* Tolerances of tests/test_accuracy.py, in units of 1e-7.
GeographicTolerance == 10

ProjectedTolerance == 50

EdgeTolerance == 100

\* The scenarios a comparison is made for: two of the test_scenarios fixture
\* and an identity scenario, each with the CRS it transforms to.
Scenarios ==
    { [name |-> "WGS84 to Web Mercator", epsg_to |-> "EPSG:3857"],
      [name |-> "NAD83 to WGS84", epsg_to |-> "EPSG:4326"],
      [name |-> "WGS84 to WGS84", epsg_to |-> "EPSG:4326"] }

\* name.startswith('WGS84 to WGS84') or 'longlat' in name.lower(), over the
\* names of Scenarios.
is_geographic(sc) == sc.name \in {"WGS84 to WGS84"}

tolerance(sc) == IF is_geographic(sc) THEN GeographicTolerance ELSE ProjectedTolerance

\* A mean tolerance that takes a hundredth of the max tolerance for a
\* projected scenario.
avg_tolerance_HundredthForProjected(sc) ==
    IF is_geographic(sc) THEN tolerance(sc) \div 10 ELSE tolerance(sc) \div 100

\* tolerance / 10 for a geographic scenario, tolerance / 2 otherwise; both
\* divisions are exact in units of 1e-7.
avg_tolerance(sc) ==
    IF is_geographic(sc) THEN tolerance(sc) \div 10 ELSE tolerance(sc) \div 2

\* A per-pair deviation that looks at the X axis alone.
point_diff_XOnly(x_diff, y_diff) == x_diff

\* point_diff = max(x_diff, y_diff)
point_diff(x_diff, y_diff) == Max2(x_diff, y_diff)

\* One entry of point_results, for the i-th pair of zip(java, python).
PointResult(i, java_point, python_point) ==
    LET x_diff == Abs(java_point.output[1] - python_point.output[1])
        y_diff == Abs(java_point.output[2] - python_point.output[2])
    IN  [point |-> i, x_diff |-> x_diff, y_diff |-> y_diff,
         max_diff |-> point_diff(x_diff, y_diff)]

\* The loop over zip(a, b): it stops with the shorter sequence.
PointResults(a, b) ==
    [i \in 1..Min2(Len(a), Len(b)) |-> PointResult(i, a[i], b[i])]

\* max_diff = max(max_diff, point_diff), from 0.0, in loop order.
RECURSIVE RunningMax(_, _)
RunningMax(prs, acc) ==
    IF prs = <<>> THEN acc ELSE RunningMax(Tail(prs), Max2(acc, Head(prs).max_diff))

\* total_diff += point_diff, from 0.0, in loop order.
RECURSIVE RunningTotal(_, _)
RunningTotal(prs, acc) ==
    IF prs = <<>> THEN acc ELSE RunningTotal(Tail(prs), acc + Head(prs).max_diff)

\* avg_diff < limit, for avg_diff = total / n if n > 0 else 0.
AvgBelow(total, n, limit) == IF n > 0 THEN total < limit * n ELSE 0 < limit

\* TestAccuracyBenchmarks._compare_accuracy: the count assertions, the loop,
\* the summary and the two tolerance assertions.
CompareAccuracy(ja, pa, sc) ==
    IF Len(ja.points) # Len(pa.points)
    THEN [NoVerdict EXCEPT !.raised = TRUE, !.reason = "count"]
    ELSE LET prs == PointResults(ja.points, pa.points)
             maxd == RunningMax(prs, 0)
             total == RunningTotal(prs, 0)
             n == Len(prs)
             tol == tolerance(sc)
             atol == avg_tolerance(sc)
         IN  [raised |-> ~(maxd < tol) \/ ~AvgBelow(total, n, atol),
              reason |-> IF ~(maxd < tol) THEN "max"
                         ELSE IF ~AvgBelow(total, n, atol) THEN "avg" ELSE "none",
              comparisons |-> n,
              point_results |-> prs,
              max_diff |-> maxd,
              total_diff |-> total,
              tolerance |-> tol,
              avg_tolerance |-> atol,
              test_passed |-> \A i \in 1..n : prs[i].max_diff < tol]

\* An edge-case comparison that insists on equal point counts.
EdgeCompare_AssertsEqualCounts(ja, pa) ==
    IF Len(ja.points) # Len(pa.points)
    THEN [NoVerdict EXCEPT !.raised = TRUE, !.reason = "count"]
    ELSE LET prs == PointResults(ja.points, pa.points)
         IN  [NoVerdict EXCEPT !.raised = ~(RunningMax(prs, 0) < EdgeTolerance),
                               !.reason = IF RunningMax(prs, 0) < EdgeTolerance
                                          THEN "none" ELSE "max",
                               !.comparisons = Len(prs),
                               !.point_results = prs,
                               !.max_diff = RunningMax(prs, 0),
                               !.tolerance = EdgeTolerance]

\* The comparison inside test_edge_case_coordinates_all_formats: both point
\* lists cut to the shorter length, the loop, one tolerance assertion.
EdgeCompare(ja, pa) ==
    LET min_points == Min2(Len(ja.points), Len(pa.points))
        java_points == IF Len(ja.points) # Len(pa.points)
                       THEN SubSeq(ja.points, 1, min_points) ELSE ja.points
        python_points == IF Len(ja.points) # Len(pa.points)
                         THEN SubSeq(pa.points, 1, min_points) ELSE pa.points
        prs == PointResults(java_points, python_points)
        maxd == RunningMax(prs, 0)
    IN  [NoVerdict EXCEPT !.raised = ~(maxd < EdgeTolerance),
                          !.reason = IF maxd < EdgeTolerance THEN "none" ELSE "max",
                          !.comparisons = Len(prs),
                          !.point_results = prs,
                          !.max_diff = maxd,
                          !.tolerance = EdgeTolerance]

\* Output coordinates the two programs print, in units of 1e-7.
JavaOutputs == {<<x, y>> : x \in {0, 1, 20, 120}, y \in {0, 3}}

PythonOutputs == {<<0, 0>>, <<20, 0>>}

PointsWith(outputs) == {[input |-> <<0, 0>>, output |-> o] : o \in outputs}

RecordsOver(outputs) ==
    {[points |-> ps, errors |-> <<>>] :
        ps \in UNION {[1..n -> PointsWith(outputs)] : n \in 0..MaxPoints}}

CompareInit ==
    /\ RunnerIdle
    /\ SweepIdle
    /\ ParseIdle
    /\ ToolsIdle
    /\ java_accuracy \in RecordsOver(JavaOutputs)
    /\ python_accuracy \in RecordsOver(PythonOutputs)
    /\ scenario \in Scenarios
    /\ verdict = NoVerdict
    /\ cmp_pc = "ready"

CompareAccuracyCall ==
    /\ cmp_pc = "ready"
    /\ verdict' = CompareAccuracy(java_accuracy, python_accuracy, scenario)
    /\ cmp_pc' = "compared"
    /\ UNCHANGED <<java_accuracy, python_accuracy, scenario, runnerVars, sweepVars, parseVars, toolVars>>

EdgeCompareCall ==
    /\ cmp_pc = "ready"
    /\ verdict' = EdgeCompare(java_accuracy, python_accuracy)
    /\ cmp_pc' = "edge_compared"
    /\ UNCHANGED <<java_accuracy, python_accuracy, scenario, runnerVars, sweepVars, parseVars, toolVars>>

CompareNext ==
    \/ CompareAccuracyCall
    \/ EdgeCompareCall

CompareSpec == CompareInit /\ [][CompareNext]_vars

\* ---------------------------------------------- claims about the comparator

LenJ == Len(java_accuracy.points)

LenP == Len(python_accuracy.points)

\* The L-infinity distance of the outputs of the i-th points of the records.
Chebyshev(i) ==
    LET dx == Abs(java_accuracy.points[i].output[1] - python_accuracy.points[i].output[1])
        dy == Abs(java_accuracy.points[i].output[2] - python_accuracy.points[i].output[2])
    IN  CHOOSE d \in {dx, dy} : d >= dx /\ d >= dy

LargestOf(n) == CHOOSE m \in {Chebyshev(i) : i \in 1..n} : \A i \in 1..n : Chebyshev(i) <= m

RECURSIVE SumOf(_)
SumOf(n) == IF n = 0 THEN 0 ELSE SumOf(n - 1) + Chebyshev(n)

\* Every pair of the two records differs by exactly dx in X and by 0 in Y.
AllPairsDifferInX(dx) ==
    \A i \in 1..Min2(LenJ, LenP) :
        /\ Abs(java_accuracy.points[i].output[1] - python_accuracy.points[i].output[1]) = dx
        /\ java_accuracy.points[i].output[2] = python_accuracy.points[i].output[2]

C5_ToleranceFollowsTargetCrs ==
    (cmp_pc = "compared" /\ verdict.reason # "count") =>
        IF scenario.epsg_to \in {"EPSG:4326", "EPSG:4269"}
        THEN verdict.tolerance = 10 /\ verdict.avg_tolerance * 10 = verdict.tolerance
        ELSE verdict.tolerance = 50 /\ verdict.avg_tolerance * 2 = verdict.tolerance

\* C6: records whose outputs differ by exactly 1e-7 in X and 0 in Y pass
\* _compare_accuracy under the base tolerance 1e-6.
C6_TenthOfToleranceDifferencePasses ==
    ( /\ cmp_pc = "compared"
      /\ verdict.tolerance = 10
      /\ LenJ = LenP
      /\ LenJ >= 1
      /\ AllPairsDifferInX(1) ) => ~verdict.raised


\* ------------------------------- the generated programs and the parser

\* A line of program output: its text, with the numbers of a 'Point' line
\* kept apart as <<n, x_in, y_in, x_out, y_out>>.
Line(t) == [text |-> t, nums |-> <<>>]

\* "%.6f": a coordinate (in units of 1e-7) rounded to six decimals.
Fmt6(v) ==
    IF v >= 0 THEN ((v + 5) \div 10) * 10 ELSE -((((-v) + 5) \div 10) * 10)

\* Stand-in for the library's transform of a point: the harness only prints
\* what the library returns.
Transform(pt) == <<pt[1] + 7, pt[2] - 4>>

\* "Point %d: (%.6f, %.6f) -> (%.6f, %.6f)" for point i of the list.
PointLine(i, pt) ==
    [text |-> "Point n: (x, y) -> (x, y)",
     nums |-> <<i, Fmt6(pt[1]), Fmt6(pt[2]), Fmt6(Transform(pt)[1]), Fmt6(Transform(pt)[2])>>]

\* The seven lines both programs print first.
HeaderLines ==
    << Line("=== Benchmark ==="), Line("Scenario: name"), Line("CRS Format: fmt"),
       Line("From CRS: crs"), Line("To CRS: crs"), Line("Test Points: n"),
       Line("Iterations: n") >>

\* The accuracy loop from point i on: one 'Point' line per transformed point;
\* for a point the library rejects, the Python program prints an error line
\* to stdout and the Java program prints to stderr only.
RECURSIVE AccuracyLines(_, _, _, _)
AccuracyLines(im, pts, ok, i) ==
    IF i > Len(pts) THEN <<>>
    ELSE (IF ok[i] THEN <<PointLine(i, pts[i])>>
          ELSE IF im = "python" THEN <<Line("Error transforming point (x, y): e")>>
          ELSE <<>>)
         \o AccuracyLines(im, pts, ok, i + 1)

\* A labelled line carrying one number.
Measured(t, v) == [text |-> t, nums |-> <<v>>]

\* What 1000.0 / 0.0 is to the Java program, and what float("Infinity") is to
\* the parser: larger than any measured throughput.
Infinity == 1000000

\* The four result lines that end the performance section.
ResultLines(total_time_ms, avg_time_ms, tps, success_rate) ==
    << Measured("Total time: t ms", total_time_ms),
       Measured("Average per transformation: t ms", avg_time_ms),
       Measured("Transformations per second: n", tps),
       Measured("Success rate: p%", success_rate) >>

\* success_count / (iterations * len(test_points)) * 100
SuccessRate(ok) == (100 * Cardinality({i \in DOMAIN ok : ok[i]})) \div Len(ok)

\* The performance section; 120 ms in all and 4 ms per transformation stand
\* for a measured time. With no elapsed time the average is 0 and 1000.0 / 0
\* is Infinity in the Java program and a ZeroDivisionError in the Python
\* program, which its outer handler reports instead of the results.
PerformanceLines(im, ok, zero) ==
    <<Line(""), Line("Performance Test:")>>
    \o (IF ~zero THEN ResultLines(120, 4, 1000 \div 4, SuccessRate(ok))
        ELSE IF im = "java"
        THEN << Measured("Total time: t ms", 0),
                Measured("Average per transformation: t ms", 0),
                Measured("Transformations per second: Infinity", Infinity),
                Measured("Success rate: p%", SuccessRate(ok)) >>
        ELSE <<Line("Error in benchmark: e")>>)

\* What the generated single-point program writes to stdout.
ProgramOutput(im, fmt, ok_crs, pts, ok, zero) ==
    IF ok_crs
    THEN HeaderLines \o <<Line(""), Line("Accuracy Test Results:")>>
         \o AccuracyLines(im, pts, ok, 1) \o PerformanceLines(im, ok, zero)
    ELSE IF im = "java" THEN HeaderLines
    ELSE IF fmt = "projjson"
    THEN HeaderLines
         \o <<Line(""), Line("Error creating CRS from PROJJSON: e"),
              Line("PROJJSON format may be incomplete or not fully supported by pyproj"),
              Line(""), Line("Performance Test:")>>
         \o ResultLines(0, 0, 0, 0)
    ELSE HeaderLines \o <<Line("Error in benchmark: e")>>

\* The Java program exits 1 when it cannot build its projections; the Python
\* program exits 0 on every path.
ProgramExit(im, ok_crs) == IF im = "java" /\ ~ok_crs THEN 1 ELSE 0

\* The substring tests of _parse_accuracy_output, over the lines of the model.
HasAccuracyMarker(l) == l.text = "Accuracy Test Results:"

HasPerformanceMarker(l) == l.text \in {"Performance Test:", "Batch Performance Test:"}

HasPoint(l) == l.text \in {"Point n: (x, y) -> (x, y)", "Test Points: n"}

HasArrow(l) == l.text = "Point n: (x, y) -> (x, y)"

HasError(l) ==
    l.text \in {"Error transforming point (x, y): e", "Error in benchmark: e",
                "Error creating CRS from PROJJSON: e"}

\* The four float() conversions of a 'Point' line succeed.
NumbersParse(l) == Len(l.nums) = 5

\* The loop of _parse_accuracy_output over the remaining lines.
RECURSIVE ParseLines(_, _, _)
ParseLines(lines, in_accuracy_section, data) ==
    IF lines = <<>> THEN data
    ELSE LET l == Head(lines) IN
         IF HasAccuracyMarker(l) THEN ParseLines(Tail(lines), TRUE, data)
         ELSE IF HasPerformanceMarker(l) THEN ParseLines(Tail(lines), FALSE, data)
         ELSE IF in_accuracy_section /\ HasPoint(l) /\ HasArrow(l)
         THEN IF NumbersParse(l)
              THEN ParseLines(Tail(lines), in_accuracy_section,
                       [data EXCEPT !.points =
                           Append(@, [input |-> <<l.nums[2], l.nums[3]>>,
                                      output |-> <<l.nums[4], l.nums[5]>>])])
              ELSE ParseLines(Tail(lines), in_accuracy_section,
                       [data EXCEPT !.errors = Append(@, "Failed to parse line")])
         ELSE IF in_accuracy_section /\ HasError(l)
         THEN ParseLines(Tail(lines), in_accuracy_section,
                  [data EXCEPT !.errors = Append(@, l.text)])
         ELSE ParseLines(Tail(lines), in_accuracy_section, data)

\* A parser that starts out inside the accuracy section.
_parse_accuracy_output_StartsInSection(output) == ParseLines(output, TRUE, EmptyRecord)

_parse_accuracy_output(output) == ParseLines(output, FALSE, EmptyRecord)

\* Test points of the fixtures, in units of 1e-7: Boston, New York and the
\* origin.
FixturePoints == {<<-710000000, 410000000>>, <<-740000000, 407000000>>, <<0, 0>>}

ParseInit ==
    /\ RunnerIdle
    /\ SweepIdle
    /\ CompareIdle
    /\ ToolsIdle
    /\ impl \in {"java", "python"}
    /\ prog_format \in SupportedFormats
    /\ crs_ok \in BOOLEAN
    /\ \E n \in 1..MaxTestPoints :
          /\ test_points \in [1..n -> FixturePoints]
          /\ transform_ok \in [1..n -> BOOLEAN]
    /\ elapsed_zero \in BOOLEAN
    /\ stdout = <<>>
    /\ exit_code = NoCode
    /\ accuracy = EmptyRecord
    /\ parse_pc = "ready"

\* The generated program runs to its end.
RunProgram ==
    /\ parse_pc = "ready"
    /\ stdout' = ProgramOutput(impl, prog_format, crs_ok, test_points, transform_ok,
                                elapsed_zero)
    /\ exit_code' = ProgramExit(impl, crs_ok)
    /\ parse_pc' = "ran"
    /\ UNCHANGED <<impl, prog_format, crs_ok, test_points, transform_ok, elapsed_zero,
                   accuracy,
                   runnerVars, sweepVars, cmpVars, toolVars>>

ParseAccuracy ==
    /\ parse_pc = "ran"
    /\ accuracy' = _parse_accuracy_output(stdout)
    /\ parse_pc' = "parsed"
    /\ UNCHANGED <<impl, prog_format, crs_ok, test_points, transform_ok, elapsed_zero,
                   stdout,
                   exit_code, runnerVars, sweepVars, cmpVars, toolVars>>

ParseNext ==
    \/ RunProgram
    \/ ParseAccuracy

ParseSpec == ParseInit /\ [][ParseNext]_vars

\* C10: the k-th point of the parsed record is the k-th point of the
\* scenario's list, for every k up to the record's length.
C10_RecordFollowsScenarioOrder ==
    parse_pc = "parsed" =>
        \A k \in 1..Len(accuracy.points) :
            accuracy.points[k].input = <<Fmt6(test_points[k][1]), Fmt6(test_points[k][2])>>


\* ------------------------------------------- the performance metrics parser

\* Largest number of lines in an output text given to the metrics parser.
MaxPerfLines == 2

\* The substring tests of _parse_benchmark_output, in the order of its
\* if/elif chain.
HasAvgLabel(l) ==
    l.text \in {"Average per transformation: t ms", "Average per transformation: n/a ms"}

HasTpsLabel(l) ==
    l.text \in {"Transformations per second: n", "Transformations per second: Infinity",
                "Transformations per second: n/a", "Transformations per second:"}

HasRateLabel(l) == l.text \in {"Success rate: p%", "Success rate: n/a%"}

HasTotalLabel(l) == l.text \in {"Total time: t ms", "Total time: n/a ms"}

\* float() of the text after the label's colon succeeds.
FloatParses(l) == Len(l.nums) = 1

\* metrics[key] = float(...): raises ValueError when the text is no number.
SetMetric(m, key, l) ==
    IF ~FloatParses(l) THEN [m EXCEPT !.raised = TRUE]
    ELSE [[m EXCEPT !.fields = @ \cup {key}] EXCEPT ![key] = l.nums[1]]

\* The loop of _parse_benchmark_output over the remaining lines; an
\* exception ends it.
RECURSIVE ParseMetrics(_, _)
ParseMetrics(lines, m) ==
    IF lines = <<>> \/ m.raised THEN m
    ELSE LET l == Head(lines) IN
         IF HasAvgLabel(l) THEN ParseMetrics(Tail(lines), SetMetric(m, "avg_time_ms", l))
         ELSE IF HasTpsLabel(l) THEN ParseMetrics(Tail(lines), SetMetric(m, "tps", l))
         ELSE IF HasRateLabel(l)
         THEN ParseMetrics(Tail(lines), SetMetric(m, "success_rate", l))
         ELSE IF HasTotalLabel(l)
         THEN ParseMetrics(Tail(lines), SetMetric(m, "total_time_ms", l))
         ELSE ParseMetrics(Tail(lines), m)

_parse_benchmark_output(output) == ParseMetrics(output, NoMetrics)

\* metrics.get("tps", 0)
GetTps(m) == IF "tps" \in m.fields THEN m.tps ELSE 0


\* ------------------------------------------------- the throughput comparison

\* a / b of two floats: ZeroDivisionError when b is 0, else the ratio, kept
\* as the pair <<a, b>>.
Quotient(a, b) == [raised |-> b = 0, value |-> <<a, b>>]

\* The speedup 0 that the tables report when they do not divide.
NoSpeedup == [raised |-> FALSE, value |-> <<0, 1>>]

\* speedup = java_tps / python_tps if python_tps > 0 else 0
SummarySpeedup(java_tps, python_tps) ==
    IF python_tps > 0 THEN Quotient(java_tps, python_tps) ELSE NoSpeedup

\* One row of _print_summary_table.
SummaryRow(jm, pm) ==
    LET java_tps == GetTps(jm)
        python_tps == GetTps(pm)
    IN  IF java_tps = 0 \/ python_tps = 0
        THEN [raised |-> FALSE, table |-> "summary", java_tps |-> java_tps,
              python_tps |-> python_tps, speedup |-> <<0, 1>>, status |-> "FAIL"]
        ELSE LET speedup == SummarySpeedup(java_tps, python_tps)
             IN  [raised |-> speedup.raised, table |-> "summary", java_tps |-> java_tps,
                  python_tps |-> python_tps, speedup |-> speedup.value, status |-> "PASS"]

\* to_float(val): float(val) if val else 0; val is already a float here.
to_float(val) == IF val # 0 THEN val ELSE 0

\* A batch table that divides without looking at the divisor.
BatchSpeedup_Unguarded(java_tps, python_tps) == Quotient(java_tps, python_tps)

\* epsg_speedup = epsg_java / epsg_python if epsg_python > 0 else 0
BatchSpeedup(java_tps, python_tps) ==
    IF python_tps > 0 THEN Quotient(java_tps, python_tps) ELSE NoSpeedup

\* One encoding's columns of a row of _print_batch_summary_table, from the
\* throughputs _run_batch_format_test returned.
BatchRow(jm, pm) ==
    LET java_tps == to_float(GetTps(jm))
        python_tps == to_float(GetTps(pm))
        speedup == BatchSpeedup(java_tps, python_tps)
    IN  [raised |-> speedup.raised, table |-> "batch", java_tps |-> java_tps,
         python_tps |-> python_tps, speedup |-> speedup.value, status |-> "none"]

\* Lines an output text may hold: the marker, each labelled line with a
\* number and with a value that is no number, and an error report.
PerfLineSamples ==
    { Line("Performance Test:"),
      Measured("Transformations per second: n", 0),
      Measured("Transformations per second: n", 250),
      Measured("Transformations per second: n", 500),
      Line("Transformations per second: n/a"),
      Line("Transformations per second:"),
      Measured("Average per transformation: t ms", 4),
      Line("Average per transformation: n/a ms"),
      Measured("Success rate: p%", 100),
      Line("Success rate: n/a%"),
      Measured("Total time: t ms", 120),
      Line("Total time: n/a ms"),
      Line("Error in benchmark: e") }

\* Output texts of up to n sampled lines.
RECURSIVE TextsUpTo(_)
TextsUpTo(n) ==
    IF n = 0 THEN {<<>>}
    ELSE LET shorter == TextsUpTo(n - 1)
         IN  shorter \cup {Append(t, l) : t \in {u \in shorter : Len(u) = n - 1},
                                          l \in PerfLineSamples}

OnePoint == <<(<<0, 0>>)>>

\* Outputs given to the parser as the JVM program's: any sampled text, and
\* what the program prints with and without a measurable elapsed time.
JavaPerfOutputs ==
    TextsUpTo(MaxPerfLines)
    \cup { ProgramOutput("java", "epsg", TRUE, OnePoint, <<TRUE>>, FALSE),
           ProgramOutput("java", "epsg", TRUE, OnePoint, <<TRUE>>, TRUE) }

\* Outputs given to the parser as the reference program's: its normal
\* output, its output with no measurable elapsed time, its zeroed report of
\* a PROJJSON failure, and a text with a throughput that is no number.
PythonPerfOutputs ==
    { ProgramOutput("python", "epsg", TRUE, OnePoint, <<TRUE>>, FALSE),
      ProgramOutput("python", "epsg", TRUE, OnePoint, <<TRUE>>, TRUE),
      ProgramOutput("python", "projjson", FALSE, OnePoint, <<TRUE>>, FALSE),
      <<Line("Performance Test:"), Line("Transformations per second: n/a")>> }

PerfInit ==
    /\ RunnerIdle
    /\ SweepIdle
    /\ CompareIdle
    /\ ParseIdle
    /\ ResolveIdle
    /\ TemplateIdle
    /\ ExtraIdle
    /\ java_stdout \in JavaPerfOutputs
    /\ python_stdout \in PythonPerfOutputs
    /\ java_metrics = NoMetrics
    /\ python_metrics = NoMetrics
    /\ summary = NoSummary
    /\ perf_pc = "ready"

\* java_metrics = self._parse_benchmark_output(java_result["output"])
ParseJavaMetrics ==
    /\ perf_pc = "ready"
    /\ java_metrics' = _parse_benchmark_output(java_stdout)
    /\ perf_pc' = IF java_metrics'.raised THEN "raised" ELSE "java_parsed"
    /\ UNCHANGED <<java_stdout, python_stdout, python_metrics, summary>>
    /\ UNCHANGED <<runnerVars, sweepVars, cmpVars, parseVars, resolveVars, templateVars, extraVars>>

\* python_metrics = self._parse_benchmark_output(python_result["output"])
ParsePythonMetrics ==
    /\ perf_pc = "java_parsed"
    /\ python_metrics' = _parse_benchmark_output(python_stdout)
    /\ perf_pc' = IF python_metrics'.raised THEN "raised" ELSE "parsed"
    /\ UNCHANGED <<java_stdout, python_stdout, java_metrics, summary>>
    /\ UNCHANGED <<runnerVars, sweepVars, cmpVars, parseVars, resolveVars, templateVars, extraVars>>

PrintSummaryTable ==
    /\ perf_pc = "parsed"
    /\ summary' = SummaryRow(java_metrics, python_metrics)
    /\ perf_pc' = IF summary'.raised THEN "raised" ELSE "summarised"
    /\ UNCHANGED <<java_stdout, python_stdout, java_metrics, python_metrics>>
    /\ UNCHANGED <<runnerVars, sweepVars, cmpVars, parseVars, resolveVars, templateVars, extraVars>>

PrintBatchSummaryTable ==
    /\ perf_pc = "parsed"
    /\ summary' = BatchRow(java_metrics, python_metrics)
    /\ perf_pc' = IF summary'.raised THEN "raised" ELSE "summarised"
    /\ UNCHANGED <<java_stdout, python_stdout, java_metrics, python_metrics>>
    /\ UNCHANGED <<runnerVars, sweepVars, cmpVars, parseVars, resolveVars, templateVars, extraVars>>

PerfNext ==
    \/ ParseJavaMetrics
    \/ ParsePythonMetrics
    \/ PrintSummaryTable
    \/ PrintBatchSummaryTable

PerfSpec == PerfInit /\ [][PerfNext]_vars

\* Some line of the text contains 'Performance Test:'.
HasMarker(text) == \E i \in DOMAIN text : HasPerformanceMarker(text[i])

\* The Java output has been through the metrics parser.
JavaParseDone == perf_pc # "ready"

\* Every field of the record is absent or zero.
Degraded(m) == \A f \in m.fields : m[f] = 0

\* C11: for every output text with no 'Performance Test:' marker the
\* performance parser returns, without raising, a record whose four fields
\* are all absent or zero.
C11_NoMarkerGivesDegradedRecord ==
    (JavaParseDone /\ ~HasMarker(java_stdout)) =>
        (~java_metrics.raised /\ Degraded(java_metrics))

\* C12: for every output text, also one whose labelled line carries a
\* missing or non-numeric value, the performance parser returns (it does not
\* raise), and the field of such a line is absent from the record.
C12_MalformedValueLeavesFieldAbsent ==
    JavaParseDone => ~java_metrics.raised

\* Two ratios are the same number.
RatEq(r, q) == r[1] * q[2] = q[1] * r[2]

MaxTextLines == 3

\* A line of the 'Point' shape whose numbers float() rejects.
MalformedPointLine == [text |-> "Point n: (x, y) -> (x, y)", nums |-> <<1>>]

\* Lines a text may hold: both markers, well-formed and malformed 'Point'
\* lines, an error report, and a line that contains 'Point' but no '->'.
AccuracyLineSamples ==
    { Line("Accuracy Test Results:"),
      Line("Performance Test:"),
      PointLine(1, <<-710000000, 410000000>>),
      PointLine(2, <<0, 0>>),
      MalformedPointLine,
      Line("Error transforming point (x, y): e"),
      Line("Test Points: n") }

\* Texts of up to n sampled lines.
RECURSIVE AccuracyTextsUpTo(_)
AccuracyTextsUpTo(n) ==
    IF n = 0 THEN {<<>>}
    ELSE LET shorter == AccuracyTextsUpTo(n - 1)
         IN  shorter \cup {Append(t, l) : t \in {u \in shorter : Len(u) = n - 1},
                                          l \in AccuracyLineSamples}

\* The parser is handed a text that no generated program need have written.
ParseTextInit ==
    /\ RunnerIdle
    /\ SweepIdle
    /\ CompareIdle
    /\ ToolsIdle
    /\ impl = "none"
    /\ prog_format = "none"
    /\ crs_ok = FALSE
    /\ test_points = <<>>
    /\ transform_ok = <<>>
    /\ elapsed_zero = FALSE
    /\ stdout \in AccuracyTextsUpTo(MaxTextLines)
    /\ exit_code = 0
    /\ accuracy = EmptyRecord
    /\ parse_pc = "ran"

ParseTextNext == ParseAccuracy

ParseTextSpec == ParseTextInit /\ [][ParseTextNext]_vars

\* Line i lies after an 'Accuracy Test Results:' line with no
\* 'Performance Test:' line from there up to and including line i, and is no
\* marker line itself.
InAccuracyWindow(i) ==
    /\ ~HasAccuracyMarker(stdout[i])
    /\ \E j \in 1..(i - 1) :
          /\ HasAccuracyMarker(stdout[j])
          /\ \A k \in (j + 1)..i : ~HasPerformanceMarker(stdout[k])

\* Lines of the window that have the 'Point ... -> ...' shape.
ShapedLines == {i \in DOMAIN stdout : InAccuracyWindow(i) /\ HasPoint(stdout[i])
                                      /\ HasArrow(stdout[i])}

GoodLines == {i \in ShapedLines : NumbersParse(stdout[i])}

\* The k-th smallest element of a set of line numbers.
KthOf(S, k) == CHOOSE i \in S : Cardinality({j \in S : j <= i}) = k

ParseFailures == {e \in DOMAIN accuracy.errors : accuracy.errors[e] = "Failed to parse line"}

\* C13: the accuracy parser returns for every text; the points of its
\* record are exactly the well-formed 'Point' lines of the accuracy window,
\* in line order, and every malformed 'Point' line of the window is exactly
\* one parse error.
C13_PointsAreTheWindowsPointLines ==
    parse_pc = "parsed" =>
        /\ Len(accuracy.points) = Cardinality(GoodLines)
        /\ \A k \in 1..Len(accuracy.points) :
              LET l == stdout[KthOf(GoodLines, k)]
              IN  accuracy.points[k] = [input |-> <<l.nums[2], l.nums[3]>>,
                                        output |-> <<l.nums[4], l.nums[5]>>]
        /\ Cardinality(ParseFailures) = Cardinality(ShapedLines \ GoodLines)

\* C13 witness: a marker, then a malformed and a well-formed 'Point' line.
C13_Witness ==
    /\ parse_pc = "parsed"
    /\ Len(stdout) = 3
    /\ HasAccuracyMarker(stdout[1])
    /\ stdout[2] = MalformedPointLine
    /\ stdout[3] = PointLine(2, <<0, 0>>)
    /\ Len(accuracy.points) = 1
    /\ accuracy.errors = <<"Failed to parse line">>


\* -------------------------------------------- looser tolerances, same records

\* The scenarios whose max tolerance is at least t.
LooserScenarios(t) == {sc \in Scenarios : tolerance(sc) >= t}

\* C15: a pair of records that passes the comparison under the tolerance of
\* its scenario passes it under every scenario with a looser tolerance, the
\* mean tolerance following by the same policy (geographic to projected
\* included).
C15_LooserToleranceKeepsPass ==
    (cmp_pc = "compared" /\ ~verdict.raised) =>
        \A sc \in LooserScenarios(verdict.tolerance) :
            ~CompareAccuracy(java_accuracy, python_accuracy, sc).raised

\* C15 witness: two records that differ by 1e-7 in one of two points pass
\* under the geographic thresholds, and a projected scenario is looser.
C15_Witness ==
    /\ cmp_pc = "compared"
    /\ ~verdict.raised
    /\ is_geographic(scenario)
    /\ verdict.comparisons = 2
    /\ verdict.max_diff = 1
    /\ \E sc \in LooserScenarios(verdict.tolerance) : tolerance(sc) > verdict.tolerance


\* --------------------------------------- from a scenario to the definitions

\* epsg_mapping of TestAccuracyBenchmarks._map_scenario_to_crs_format.
accuracy_epsg_mapping ==
    [c \in {"EPSG:4326", "EPSG:3857", "EPSG:32619", "EPSG:32145", "EPSG:4269"} |->
        CASE c = "EPSG:4326" -> "WGS84"
          [] c = "EPSG:3857" -> "WebMercator"
          [] c = "EPSG:32619" -> "UTM_19N"
          [] c = "EPSG:32145" -> "Lambert_Conic"
          [] c = "EPSG:4269" -> "NAD83"]

_map_scenario_to_crs_format(sc, fmt) == MapWith(accuracy_epsg_mapping, sc, fmt)

\* wkt2Files of the JVM programs and wkt2_files of the reference programs:
\* the same five entries.
wkt2_files ==
    [k \in DefinitionKeys |->
        CASE k = "WGS84" -> "data/wkt2/wgs84.wkt"
          [] k = "WebMercator" -> "data/wkt2/webmercator.wkt"
          [] k = "UTM_19N" -> "data/wkt2/utm_19n.wkt"
          [] k = "NAD83_Vermont" -> "data/wkt2/nad83_vermont.wkt"
          [] k = "NAD83" -> "data/wkt2/nad83.wkt"]

\* The JVM program: wkt2Files.get(key) is null for a key the map lacks, and
\* Paths.get(null) throws, which the program answers with System.exit(1).
\* Under the other encodings it builds its projections from the strings.
JavaLoad(fmt, strings) ==
    IF fmt = "wkt2"
    THEN IF strings[1].name \notin DOMAIN wkt2_files \/ strings[2].name \notin DOMAIN wkt2_files
         THEN [failed |-> TRUE, defs |-> <<"", "">>]
         ELSE [failed |-> FALSE,
               defs |-> <<wkt2_files[strings[1].name], wkt2_files[strings[2].name]>>]
    ELSE [failed |-> FALSE, defs |-> <<strings[1].name, strings[2].name>>]

\* The reference program: wkt2_files.get(key, default) with the WGS84 file
\* as the source default and the Web Mercator file as the target default.
PythonLoad(fmt, strings) ==
    IF fmt = "wkt2"
    THEN [failed |-> FALSE,
          defs |-> << MappingGet(wkt2_files, strings[1].name, "data/wkt2/wgs84.wkt"),
                      MappingGet(wkt2_files, strings[2].name, "data/wkt2/webmercator.wkt") >>]
    ELSE [failed |-> FALSE, defs |-> <<strings[1].name, strings[2].name>>]

ResolveInit ==
    /\ RunnerIdle
    /\ SweepIdle
    /\ CompareIdle
    /\ ParseIdle
    /\ PerfIdle
    /\ TemplateIdle
    /\ ExtraIdle
    /\ res_scenario \in FixtureScenarioDicts \cup LegacyScenarioDicts
    /\ res_format \in CrsFormats
    /\ mapped_scenario = NoScenarioDict
    /\ crs_strings = <<EpsgString(""), EpsgString("")>>
    /\ java_loaded = NothingLoaded
    /\ python_loaded = NothingLoaded
    /\ res_error = "none"
    /\ res_pc = "ready"
    /\ mapper = "none"

\* A test maps the scenario with one of the two helpers.
Mapped(m, r) ==
    /\ res_pc = "ready"
    /\ mapper' = m
    /\ mapped_scenario' = r.value
    /\ res_error' = r.raised
    /\ res_pc' = IF r.raised = "none" THEN "mapped" ELSE "raised"
    /\ UNCHANGED <<res_scenario, res_format, crs_strings, java_loaded, python_loaded>>
    /\ UNCHANGED <<runnerVars, sweepVars, cmpVars, parseVars, perfVars, templateVars, extraVars>>

MapScenario == Mapped("conftest", map_scenario_to_crs_format(res_scenario, res_format))

MapScenarioAccuracy ==
    Mapped("test_accuracy", _map_scenario_to_crs_format(res_scenario, res_format))

\* A runner resolves the scenario it was given: the mapped one, or the
\* scenario itself when the test passed it unmapped.
GetCrsStrings ==
    /\ res_pc \in {"ready", "mapped"}
    /\ LET r == _get_crs_strings(IF res_pc = "mapped" THEN mapped_scenario ELSE res_scenario,
                                 res_format)
       IN  /\ crs_strings' = r.value
           /\ res_error' = r.raised
           /\ res_pc' = IF r.raised = "none" THEN "resolved" ELSE "raised"
    /\ UNCHANGED <<res_scenario, res_format, mapped_scenario, java_loaded, python_loaded,
                   mapper>>
    /\ UNCHANGED <<runnerVars, sweepVars, cmpVars, parseVars, perfVars, templateVars, extraVars>>

\* The two generated programs read their definitions.
LoadDefinitions ==
    /\ res_pc = "resolved"
    /\ java_loaded' = JavaLoad(res_format, crs_strings)
    /\ python_loaded' = PythonLoad(res_format, crs_strings)
    /\ res_pc' = "loaded"
    /\ UNCHANGED <<res_scenario, res_format, mapped_scenario, crs_strings, res_error, mapper>>
    /\ UNCHANGED <<runnerVars, sweepVars, cmpVars, parseVars, perfVars, templateVars, extraVars>>

ResolveNext ==
    \/ MapScenario
    \/ MapScenarioAccuracy
    \/ GetCrsStrings
    \/ LoadDefinitions

ResolveSpec == ResolveInit /\ [][ResolveNext]_vars

\* C16: under wkt2 the two programs read the same definition files, for
\* every key the resolver hands them.
C16_BothProgramsReadSameWkt2Files ==
    (res_pc = "loaded" /\ res_format = "wkt2") =>
        (~java_loaded.failed /\ java_loaded.defs = python_loaded.defs)

\* The name the lookup table gives an EPSG identifier it holds.
NamedDefinition(code) ==
    CASE code = "EPSG:4326" -> "WGS84"
      [] code = "EPSG:3857" -> "WebMercator"
      [] code = "EPSG:32619" -> "UTM_19N"
      [] code = "EPSG:32145" -> "NAD83_Vermont"
      [] code = "EPSG:4269" -> "NAD83"
      [] OTHER -> "none"

\* The shared helper mapped a fixture scenario for wkt2 or projjson and a
\* runner resolved the result.
ResolvedThroughTable ==
    /\ res_pc \in {"resolved", "loaded"}
    /\ mapper = "conftest"
    /\ res_format \in {"wkt2", "projjson"}

\* The definition names the resolution must give with the defaults d_from
\* and d_to for identifiers the table lacks.
ResolvesWithDefaults(d_from, d_to) ==
    LET want_from == IF NamedDefinition(res_scenario.epsg_from) = "none" THEN d_from
                     ELSE NamedDefinition(res_scenario.epsg_from)
        want_to == IF NamedDefinition(res_scenario.epsg_to) = "none" THEN d_to
                   ELSE NamedDefinition(res_scenario.epsg_to)
    IN  /\ crs_strings[1].name = want_from
        /\ crs_strings[2].name = want_to
        /\ crs_strings[1].kind = res_format
        /\ crs_strings[2].kind = res_format

C19_LegacyScenarioAccepted ==
    (res_scenario \in LegacyScenarioDicts /\ res_format \in SupportedFormats) =>
        /\ res_error = "none"
        /\ (res_pc \in {"resolved", "loaded"} /\ res_format = "epsg") =>
              crs_strings = <<EpsgString(res_scenario.from_crs),
                              EpsgString(res_scenario.to_crs)>>


\* ------------------------------------------------ an encoding nobody knows

MaxTemplateLen == 4

TemplateChars == {"{", "}", "A", "B", "x"}

TemplateKeys == {"A", "B"}

\* "{" + key + "}"
Placeholder(key) == <<"{", key, "}">>

\* A keyword argument's value: a string, or an integer that str() spells out.
StrValue(t) == [kind |-> "str", text |-> t, num |-> 0]

IntValue(n) == [kind |-> "int", text |-> <<>>, num |-> n]

Digit(n) == CASE n = 0 -> "0" [] n = 1 -> "1" [] n = 2 -> "2" [] n = 3 -> "3" [] n = 4 -> "4"
              [] n = 5 -> "5" [] n = 6 -> "6" [] n = 7 -> "7" [] n = 8 -> "8" [] n = 9 -> "9"

RECURSIVE Digits(_)
Digits(n) == IF n < 10 THEN <<Digit(n)>> ELSE Digits(n \div 10) \o <<Digit(n % 10)>>

\* str(value)
StrOf(value) == IF value.kind = "str" THEN value.text ELSE Digits(value.num)

\* text.replace(old, new): every occurrence of old, leftmost first and
\* without overlap; what was inserted is not searched again by this call.
RECURSIVE Replace(_, _, _)
Replace(text, old, new) ==
    IF Len(text) < Len(old) THEN text
    ELSE IF SubSeq(text, 1, Len(old)) = old
         THEN new \o Replace(SubSeq(text, Len(old) + 1, Len(text)), old, new)
         ELSE <<Head(text)>> \o Replace(Tail(text), old, new)

\* The loop of fill_template over kwargs.items(), in the order supplied;
\* each pass works on the result of the one before.
RECURSIVE fill_template(_, _)
fill_template(content, kwargs) ==
    IF kwargs = <<>> THEN content
    ELSE fill_template(Replace(content, Placeholder(Head(kwargs).key), StrOf(Head(kwargs).value)),
                       Tail(kwargs))

RECURSIVE TemplatesUpTo(_)
TemplatesUpTo(n) ==
    IF n = 0 THEN {<<>>}
    ELSE LET shorter == TemplatesUpTo(n - 1)
         IN  shorter \cup {Append(t, c) : t \in {u \in shorter : Len(u) = n - 1},
                                          c \in TemplateChars}

TemplateValues ==
    {StrValue(<<"x">>), StrValue(<<>>), StrValue(Placeholder("A")), StrValue(Placeholder("B")),
     IntValue(7)}

Binding(k, v) == [key |-> k, value |-> v]

\* Keyword arguments: no key twice, in the order the caller wrote them.
BindingMaps ==
    {<<>>}
    \cup {<<Binding(k, v)>> : k \in TemplateKeys, v \in TemplateValues}
    \cup {<<Binding(ks[1], v1), Binding(ks[2], v2)>> :
              ks \in {p \in TemplateKeys \X TemplateKeys : p[1] # p[2]},
              v1 \in TemplateValues, v2 \in TemplateValues}

TemplateInit ==
    /\ RunnerIdle
    /\ SweepIdle
    /\ CompareIdle
    /\ ParseIdle
    /\ PerfIdle
    /\ ResolveIdle
    /\ ExtraIdle
    /\ template_content \in TemplatesUpTo(MaxTemplateLen)
    /\ bindings \in BindingMaps
    /\ rendered = <<>>
    /\ tpl_pc = "ready"

FillTemplate ==
    /\ tpl_pc = "ready"
    /\ rendered' = fill_template(template_content, bindings)
    /\ tpl_pc' = "filled"
    /\ UNCHANGED <<template_content, bindings>>
    /\ UNCHANGED <<runnerVars, sweepVars, cmpVars, parseVars, perfVars, resolveVars, extraVars>>

TemplateNext == FillTemplate

TemplateSpec == TemplateInit /\ [][TemplateNext]_vars

BoundKeys(kwargs) == {kwargs[i].key : i \in DOMAIN kwargs}

ValueOf(kwargs, k) == kwargs[CHOOSE i \in DOMAIN kwargs : kwargs[i].key = k].value

\* The template with every placeholder of a bound key replaced by the
\* string form of its value, and every other character kept.
RECURSIVE Substituted(_, _)
Substituted(text, kwargs) ==
    IF text = <<>> THEN <<>>
    ELSE IF /\ Len(text) >= 3
            /\ text[1] = "{"
            /\ text[3] = "}"
            /\ text[2] \in BoundKeys(kwargs)
         THEN StrOf(ValueOf(kwargs, text[2]))
                  \o Substituted(SubSeq(text, 4, Len(text)), kwargs)
         ELSE <<Head(text)>> \o Substituted(Tail(text), kwargs)

\* C20: the filled template is the template with each placeholder of a
\* bound key replaced by the string form of its value, the placeholders of
\* missing keys and all other text kept unchanged.
C20_FilledIsTemplateWithValuesInPlace ==
    tpl_pc = "filled" => rendered = Substituted(template_content, bindings)


\* -------------------------------------------- two helpers, one resolution

\* C27: whichever of the two mapping helpers a test used, the keys it wrote
\* for the source and the target are the keys the other helper gives for
\* the same scenario and encoding.
C27_BothHelpersGiveSameKeys ==
    (res_pc = "mapped" /\ res_format \in {"wkt2", "projjson"}) =>
        /\ mapped_scenario = map_scenario_to_crs_format(res_scenario, res_format).value
        /\ mapped_scenario = _map_scenario_to_crs_format(res_scenario, res_format).value


\* --------------------------------------------------- the order of bindings

\* The same keyword arguments written in the opposite order.
Reversed(kwargs) == [i \in 1..Len(kwargs) |-> kwargs[Len(kwargs) + 1 - i]]

\* C30: the filled template is what the same bindings give in the opposite
\* order, and every value stands in it verbatim: a placeholder inside a
\* value is not replaced in turn.
C30_OrderFreeAndVerbatim ==
    tpl_pc = "filled" =>
        /\ rendered = fill_template(template_content, Reversed(bindings))
        /\ \A i \in DOMAIN bindings :
              template_content = Placeholder(bindings[i].key) =>
                  rendered = StrOf(bindings[i].value)


\* --------------------------------------------------------- empty evidence

\* C29: _compare_accuracy fails whenever one of the two records has no
\* point, and the edge-case comparison fails when it compared no pair.
C29_NoPassOnEmptyEvidence ==
    /\ (cmp_pc = "compared" /\ (LenJ = 0 \/ LenP = 0)) => verdict.raised
    /\ (cmp_pc = "edge_compared" /\ verdict.comparisons = 0) => verdict.raised


\* ------------------------------------- from two program runs to one verdict

\* A test is about to run the two generated programs on one scenario; the
\* library of the JVM side accepts the points transform_ok marks.
PairingInit ==
    /\ RunnerIdle
    /\ SweepIdle
    /\ ToolsIdle
    /\ impl = "none"
    /\ prog_format \in SupportedFormats
    /\ crs_ok \in BOOLEAN
    /\ \E n \in 1..MaxTestPoints :
          /\ test_points \in [1..n -> FixturePoints]
          /\ transform_ok \in [1..n -> BOOLEAN]
    /\ elapsed_zero = FALSE
    /\ stdout = <<>>
    /\ exit_code = NoCode
    /\ accuracy = EmptyRecord
    /\ parse_pc = "none"
    /\ java_accuracy = EmptyRecord
    /\ python_accuracy = EmptyRecord
    /\ scenario \in Scenarios
    /\ verdict = NoVerdict
    /\ cmp_pc = "none"

\* Both programs run, the test asserts a zero exit status of each and parses
\* the two outputs; the reference library accepts the points python_ok marks.
RunAndParseBoth ==
    /\ cmp_pc = "none"
    /\ \E python_ok \in [DOMAIN test_points -> BOOLEAN] :
          IF ProgramExit("java", crs_ok) # 0
          THEN /\ cmp_pc' = "aborted"
               /\ UNCHANGED <<java_accuracy, python_accuracy>>
          ELSE /\ java_accuracy' =
                      _parse_accuracy_output(ProgramOutput("java", prog_format, crs_ok,
                                                           test_points, transform_ok, FALSE))
               /\ python_accuracy' =
                      _parse_accuracy_output(ProgramOutput("python", prog_format, crs_ok,
                                                           test_points, python_ok, FALSE))
               /\ cmp_pc' = "ready"
    /\ UNCHANGED <<scenario, verdict, runnerVars, sweepVars, parseVars, toolVars>>

PairingNext ==
    \/ RunAndParseBoth
    \/ CompareAccuracyCall
    \/ EdgeCompareCall

PairingSpec == PairingInit /\ [][PairingNext]_vars

\* C28: every pair a comparison subtracted is the two programs' results
\* for one and the same input point.
C28_ComparedPairsShareTheirInput ==
    cmp_pc \in {"compared", "edge_compared"} =>
        \A i \in 1..verdict.comparisons :
            java_accuracy.points[i].input = python_accuracy.points[i].input


\* ------------------------------------------------------- warmup iterations

\* The largest iteration count BENCHMARK_ITERATIONS is given here; above
\* 1000 a tenth of it exceeds the cap of 100.
MaxIterations == 1200

\* warmup = max(1, min(100, n // 10)); if warmup >= n: warmup = max(1, n - 1)
warmup_iterations(n) ==
    LET first == Max2(1, Min2(100, n \div 10))
    IN  IF first >= n THEN Max2(1, n - 1) ELSE first

WarmupInit ==
    /\ RunnerIdle
    /\ SweepIdle
    /\ CompareIdle
    /\ ParseIdle
    /\ PerfIdle
    /\ ResolveIdle
    /\ TemplateIdle
    /\ ConsistencyIdle
    /\ BatchIdle
    /\ WorkersIdle
    /\ DriverIdle
    /\ benchmark_iterations \in 0..MaxIterations
    /\ warmup = 0
    /\ warm_pc = "ready"

DeriveWarmup ==
    /\ warm_pc = "ready"
    /\ warmup' = warmup_iterations(benchmark_iterations)
    /\ warm_pc' = "derived"
    /\ UNCHANGED <<benchmark_iterations, coreVars, consVars, batchVars, workerVars,
                   driverVars>>

WarmupNext == DeriveWarmup

WarmupSpec == WarmupInit /\ [][WarmupNext]_vars

\* C22: for an iteration count of at least 1 the warmup count is at least 1
\* and below the iteration count.
C22_WarmupBelowIterations ==
    (warm_pc = "derived" /\ benchmark_iterations >= 1) =>
        (1 <= warmup /\ warmup < benchmark_iterations)


\* ------------------------------------------------- the points of a batch

MaxBasePoints == 3

MaxBatch == 7

\* seq * k
RECURSIVE Repeated(_, _)
Repeated(seq, k) == IF k <= 0 THEN <<>> ELSE seq \o Repeated(seq, k - 1)

\* seq[:b] for b >= 0
Prefix(seq, b) == SubSeq(seq, 1, Min2(b, Len(seq)))

\* A repetition count without the extra copy.
RepeatCount_Floor(b, n) == b \div n

\* batch_size // len(scenario['test_points']) + 1
RepeatCount(b, n) == b \div n + 1

\* test_points of both batch runners: the base list repeated, then cut to
\* batch_size; the reference program is generated with this list.
PythonBatchPoints(base, b) == Prefix(Repeated(base, RepeatCount(b, Len(base))), b)

\* initializeTestPoints of the generated JVM program:
\* testPoints[i] = basePoints[i % basePoints.length] for 0 <= i < batchSize.
JavaBatchPoints(base, b) == [i \in 1..b |-> base[((i - 1) % Len(base)) + 1]]

BatchInit ==
    /\ RunnerIdle
    /\ SweepIdle
    /\ CompareIdle
    /\ ParseIdle
    /\ PerfIdle
    /\ ResolveIdle
    /\ TemplateIdle
    /\ ConsistencyIdle
    /\ WarmupIdle
    /\ WorkersIdle
    /\ DriverIdle
    /\ \E n \in 1..MaxBasePoints : base_points \in [1..n -> FixturePoints]
    /\ batch_size \in 0..MaxBatch
    /\ java_batch = <<>>
    /\ python_batch = <<>>
    /\ batch_pc = "ready"

\* The two batch runners generate their programs for one scenario and size.
GenerateBatch ==
    /\ batch_pc = "ready"
    /\ java_batch' = JavaBatchPoints(base_points, batch_size)
    /\ python_batch' = PythonBatchPoints(base_points, batch_size)
    /\ batch_pc' = "generated"
    /\ UNCHANGED <<base_points, batch_size, coreVars, consVars, warmVars, workerVars,
                   driverVars>>

BatchNext == GenerateBatch

BatchSpec == BatchInit /\ [][BatchNext]_vars

\* C21: the derived list has batch_size entries, entry i (from 0) is base
\* point i mod n, and the JVM program fills its array with the same points.
C21_BatchCyclesThroughBasePoints ==
    batch_pc = "generated" =>
        /\ Len(python_batch) = batch_size
        /\ \A i \in 0..(batch_size - 1) :
              python_batch[i + 1] = base_points[(i % Len(base_points)) + 1]
        /\ java_batch = python_batch

\* C21 witness: a batch that wraps around three distinct base points and
\* ends inside a round.
C21_Witness ==
    /\ batch_pc = "generated"
    /\ Len(base_points) = 3
    /\ Cardinality({base_points[i] : i \in 1..3}) = 3
    /\ batch_size = 7
    /\ python_batch[7] = base_points[1]
    /\ java_batch[5] = base_points[2]


\* ------------------------------------------ consistency across encodings

\* 1e-5, in units of 1e-7.
FormatTolerance == 100

\* _compare_format_results: a row with status 'warn' when the counts differ
\* (max_diff = inf) or the max deviation exceeds the tolerance.
_compare_format_results(result1, result2, comparison_name) ==
    IF Len(result1.points) # Len(result2.points)
    THEN [name |-> comparison_name, max_diff |-> Infinity, status |-> "warn"]
    ELSE LET maxd == RunningMax(PointResults(result1.points, result2.points), 0)
         IN  [name |-> comparison_name, max_diff |-> maxd,
              status |-> IF maxd <= FormatTolerance THEN "pass" ELSE "warn"]

\* _compare_format_consistency: six rows are collected and printed; nothing
\* is asserted, and the closing line reports a pass.
_compare_format_consistency(epsg_result, wkt2_result, projjson_result) ==
    [comparisons |->
        << _compare_format_results(epsg_result.java, wkt2_result.java, "Java EPSG vs WKT2"),
           _compare_format_results(epsg_result.java, projjson_result.java,
                                   "Java EPSG vs PROJJSON"),
           _compare_format_results(wkt2_result.java, projjson_result.java,
                                   "Java WKT2 vs PROJJSON"),
           _compare_format_results(epsg_result.python, wkt2_result.python,
                                   "Python EPSG vs WKT2"),
           _compare_format_results(epsg_result.python, projjson_result.python,
                                   "Python EPSG vs PROJJSON"),
           _compare_format_results(wkt2_result.python, projjson_result.python,
                                   "Python WKT2 vs PROJJSON") >>,
     failed |-> FALSE]

\* Records one program run can give for a one-point scenario: no point, or
\* the point with one of three outputs.
FormatRecords ==
    {EmptyRecord}
    \cup {[points |-> <<[input |-> <<0, 0>>, output |-> <<x, 0>>]>>, errors |-> <<>>] :
              x \in {0, 100, 120}}

ConsistencyInit ==
    /\ RunnerIdle
    /\ SweepIdle
    /\ CompareIdle
    /\ ParseIdle
    /\ PerfIdle
    /\ ResolveIdle
    /\ TemplateIdle
    /\ BatchIdle
    /\ WarmupIdle
    /\ WorkersIdle
    /\ DriverIdle
    /\ fmt_results \in [SupportedFormats -> [java : FormatRecords, python : FormatRecords]]
    /\ consistency = [comparisons |-> <<>>, failed |-> FALSE]
    /\ cons_pc = "ready"

CompareFormatConsistency ==
    /\ cons_pc = "ready"
    /\ consistency' = _compare_format_consistency(fmt_results["epsg"], fmt_results["wkt2"],
                                                   fmt_results["projjson"])
    /\ cons_pc' = "checked"
    /\ UNCHANGED <<fmt_results, coreVars, batchVars, warmVars, workerVars, driverVars>>

ConsistencyNext == CompareFormatConsistency

ConsistencySpec == ConsistencyInit /\ [][ConsistencyNext]_vars

\* Two records agree: equal point counts and no pair more than 1e-5 apart.
Consistent(r1, r2) ==
    /\ Len(r1.points) = Len(r2.points)
    /\ \A i \in 1..Len(r1.points) :
          /\ Abs(r1.points[i].output[1] - r2.points[i].output[1]) <= 100
          /\ Abs(r1.points[i].output[2] - r2.points[i].output[2]) <= 100

\* C26: when the consistency comparison ends without failing, each of the
\* six pairs of encodings agreed, for either implementation.
C26_ConsistencyPassMeansAllPairsAgree ==
    (cons_pc = "checked" /\ ~consistency.failed) =>
        \A im \in {"java", "python"} :
            \A f1, f2 \in SupportedFormats :
                Consistent(fmt_results[f1][im], fmt_results[f2][im])


\* ------------------------------------------- the shape of a program's output

\* The lines of out stand in the order of the output contract: the accuracy
\* marker, then every 'Point' line, then the performance marker, then the
\* four labelled lines.
InContractOrder(out) ==
    \E a, p \in DOMAIN out :
        /\ a < p
        /\ HasAccuracyMarker(out[a])
        /\ HasPerformanceMarker(out[p])
        /\ \A i \in DOMAIN out : HasArrow(out[i]) => (a < i /\ i < p)
        /\ Len(out) >= p + 4
        /\ HasTotalLabel(out[p + 1])
        /\ HasAvgLabel(out[p + 2])
        /\ HasTpsLabel(out[p + 3])
        /\ HasRateLabel(out[p + 4])

\* C23: a generated program that exited with status 0 wrote its lines in
\* the order of the output contract.
C23_ZeroExitMeansContractOutput ==
    (parse_pc \in {"ran", "parsed"} /\ exit_code = 0) => InContractOrder(stdout)


\* ------------------------------------------------------------- the driver

\* How the pytest subprocess of one test group can end: exit status 0, a
\* non-zero exit status, no exit within the 600 s deadline, or subprocess.run
\* raising because the command cannot be started.
GroupOutcomes == {"exit_zero", "exit_nonzero", "deadline", "cannot_start"}

\* run_benchmark_test: the status it gives each outcome; every exception is
\* caught inside it.
run_benchmark_test(test_name, outcome) ==
    [test |-> test_name,
     outcome |-> outcome,
     status |-> CASE outcome = "exit_zero" -> "PASSED"
                  [] outcome = "exit_nonzero" -> "FAILED"
                  [] outcome = "deadline" -> "TIMEOUT"
                  [] outcome = "cannot_start" -> "CRASHED"]

\* An exit status that counts the way print_footer counts failures.
FailingStatuses_FailedOnly == {"FAILED"}

\* r["status"] in ["FAILED", "CRASHED", "TIMEOUT"]
FailingStatuses == {"FAILED", "CRASHED", "TIMEOUT"}

\* return 1 if failed_tests > 0 else 0
MainReturn(rs) ==
    IF Cardinality({i \in DOMAIN rs : rs[i].status \in FailingStatuses}) > 0 THEN 1 ELSE 0

DriverInit ==
    /\ RunnerIdle
    /\ SweepIdle
    /\ CompareIdle
    /\ ParseIdle
    /\ PerfIdle
    /\ ResolveIdle
    /\ TemplateIdle
    /\ ConsistencyIdle
    /\ BatchIdle
    /\ WarmupIdle
    /\ WorkersIdle
    /\ markers \in SUBSET {"performance", "accuracy", "comprehensive"}
    /\ results = <<>>
    /\ drv_pc = "setup"
    /\ exit_status = NoCode

\* main runs one test group if it is asked for, and goes on whatever its
\* status.
RunGroup(at, wanted, test_name, next) ==
    /\ drv_pc = at
    /\ IF wanted
       THEN \E outcome \in GroupOutcomes :
               results' = Append(results, run_benchmark_test(test_name, outcome))
       ELSE UNCHANGED results
    /\ drv_pc' = next
    /\ UNCHANGED <<markers, exit_status, coreVars, consVars, batchVars, warmVars, workerVars>>

RunSetupTests == RunGroup("setup", TRUE, "Setup Tests", "performance")

RunPerformanceTests ==
    RunGroup("performance", "performance" \in markers, "Performance Benchmark Tests",
             "accuracy")

RunAccuracyTests == RunGroup("accuracy", "accuracy" \in markers, "Accuracy Tests", "report")

\* The summaries are printed and main returns its exit code.
ReturnFromMain ==
    /\ drv_pc = "report"
    /\ exit_status' = MainReturn(results)
    /\ drv_pc' = "returned"
    /\ UNCHANGED <<markers, results, coreVars, consVars, batchVars, warmVars, workerVars>>

DriverNext ==
    \/ RunSetupTests
    \/ RunPerformanceTests
    \/ RunAccuracyTests
    \/ ReturnFromMain

DriverSpec == DriverInit /\ [][DriverNext]_vars

\* C25: main returns 0 exactly when every group it ran ended PASSED and 1
\* when a group ended FAILED, CRASHED or TIMEOUT; a deadline overrun is
\* classified TIMEOUT and a non-zero exit FAILED, and nothing else is.
C25_ExitStatusReflectsFailure ==
    /\ drv_pc = "returned" =>
          /\ exit_status \in {0, 1}
          /\ exit_status = 0 <=> \A i \in DOMAIN results : results[i].status = "PASSED"
          /\ (\E i \in DOMAIN results : results[i].status \in {"FAILED", "CRASHED", "TIMEOUT"})
                => exit_status = 1
    /\ \A i \in DOMAIN results :
          /\ results[i].status = "TIMEOUT" <=> results[i].outcome = "deadline"
          /\ results[i].status = "FAILED" <=> results[i].outcome = "exit_nonzero"

\* C25 witness: the setup group passed, the performance group overran its
\* deadline, the accuracy group exited non-zero, and main returned 1.
C25_Witness ==
    /\ drv_pc = "returned"
    /\ Len(results) = 3
    /\ results[1].status = "PASSED"
    /\ results[2].status = "TIMEOUT"
    /\ results[3].status = "FAILED"
    /\ exit_status = 1


\* ---------------------------------------- several invocations, one directory

\* Names tempfile can draw for a file in the working directory, and for a
\* directory under the system's temporary directory. It draws at random and
\* takes the first name that does not exist at that moment.
TempNames == {"tmpa", "tmpb"}

TempDirs == {"d1", "d2", "d3"}

SourceOf(f) == [dir |-> f.dir, stem |-> f.stem, ext |-> "java"]

ClassOf(f) == [dir |-> f.dir, stem |-> f.stem, ext |-> "class"]

\* JavaRunner: tempfile.mkdtemp() and 'BenchmarkRunner.java' inside it; the
\* directory is never removed. BatchJavaRunner: NamedTemporaryFile(
\* suffix='.java', delete=False, dir='.'), the class named after the file.
FreshFiles(k) ==
    IF k = "java"
    THEN {[dir |-> d, stem |-> "BenchmarkRunner"] : d \in TempDirs \ dirs}
    ELSE {f \in {[dir |-> ".", stem |-> n] : n \in TempNames} : SourceOf(f) \notin disk}

WorkersInit ==
    /\ RunnerIdle
    /\ SweepIdle
    /\ CompareIdle
    /\ ParseIdle
    /\ PerfIdle
    /\ ResolveIdle
    /\ TemplateIdle
    /\ ConsistencyIdle
    /\ BatchIdle
    /\ WarmupIdle
    /\ DriverIdle
    /\ WorkersIdle

othersThanWorkers == <<coreVars, consVars, batchVars, warmVars, driverVars>>

\* A worker enters run_benchmark or run_batch_benchmark of a JVM runner.
StartInvocation(w) ==
    /\ wpc[w] = "off"
    /\ \E k \in {"java", "batch_java"} : wkind' = [wkind EXCEPT ![w] = k]
    /\ wpc' = [wpc EXCEPT ![w] = "create"]
    /\ wlost' = [wlost EXCEPT ![w] = FALSE]
    /\ UNCHANGED <<wfile, disk, dirs, othersThanWorkers>>

\* The source file is created and written.
CreateSource(w) ==
    /\ wpc[w] = "create"
    /\ \E f \in FreshFiles(wkind[w]) :
          /\ wfile' = [wfile EXCEPT ![w] = f]
          /\ disk' = disk \cup {SourceOf(f)}
          /\ dirs' = IF wkind[w] = "java" THEN dirs \cup {f.dir} ELSE dirs
    /\ wpc' = [wpc EXCEPT ![w] = "compile"]
    /\ UNCHANGED <<wkind, wlost, othersThanWorkers>>

\* javac ends: with exit status 0 the class file stands next to the source.
CompileSource(w) ==
    /\ wpc[w] = "compile"
    /\ \E compiled \in BOOLEAN :
          IF compiled /\ SourceOf(wfile[w]) \in disk
          THEN /\ disk' = disk \cup {ClassOf(wfile[w])}
               /\ wpc' = [wpc EXCEPT ![w] = "run"]
          ELSE /\ disk' = disk
               /\ wpc' = [wpc EXCEPT ![w] = "unlink_source"]
    /\ UNCHANGED <<wkind, wfile, dirs, wlost, othersThanWorkers>>

\* java loads the class by its name from the directory of the source.
RunClass(w) ==
    /\ wpc[w] = "run"
    /\ wlost' = [wlost EXCEPT ![w] = ClassOf(wfile[w]) \notin disk]
    /\ wpc' = [wpc EXCEPT ![w] = "unlink_source"]
    /\ UNCHANGED <<wkind, wfile, disk, dirs, othersThanWorkers>>

\* finally: os.unlink(java_file); OSError ends the block.
UnlinkSource(w) ==
    /\ wpc[w] = "unlink_source"
    /\ IF SourceOf(wfile[w]) \in disk
       THEN /\ disk' = disk \ {SourceOf(wfile[w])}
            /\ wpc' = [wpc EXCEPT ![w] = "unlink_class"]
       ELSE /\ disk' = disk
            /\ wpc' = [wpc EXCEPT ![w] = "done"]
    /\ UNCHANGED <<wkind, wfile, dirs, wlost, othersThanWorkers>>

\* finally: the class file is unlinked if it is there.
UnlinkClass(w) ==
    /\ wpc[w] = "unlink_class"
    /\ disk' = disk \ {ClassOf(wfile[w])}
    /\ wpc' = [wpc EXCEPT ![w] = "done"]
    /\ UNCHANGED <<wkind, wfile, dirs, wlost, othersThanWorkers>>

\* The call returns or raises to the test.
EndInvocation(w) ==
    /\ wpc[w] = "done"
    /\ wpc' = [wpc EXCEPT ![w] = "off"]
    /\ wkind' = [wkind EXCEPT ![w] = "none"]
    /\ wfile' = [wfile EXCEPT ![w] = NoFile]
    /\ UNCHANGED <<disk, dirs, wlost, othersThanWorkers>>

WorkersNext ==
    \E w \in Workers :
        \/ StartInvocation(w)
        \/ CreateSource(w)
        \/ CompileSource(w)
        \/ RunClass(w)
        \/ UnlinkSource(w)
        \/ UnlinkClass(w)
        \/ EndInvocation(w)

WorkersSpec == WorkersInit /\ [][WorkersNext]_vars

\* The invocation of w has created its source and has not finished its
\* cleanup.
StillUsesFiles(w) == wpc[w] \in {"compile", "run", "unlink_source", "unlink_class"}

\* C24: two invocations under way never hold the same source path, and no
\* invocation finds the class it compiled removed.
C24_InvocationsKeepTheirFilesApart ==
    /\ \A w1, w2 \in Workers :
          (w1 # w2 /\ StillUsesFiles(w1) /\ StillUsesFiles(w2)) => wfile[w1] # wfile[w2]
    /\ \A w \in Workers : ~wlost[w]

==========================================================================
